---- MODULE Spec2Model ----
(***************************************************************************)
(* A model of the context-ai-v2 backend: the Stripe webhook receiver with  *)
(* its in-memory idempotency set (src/app/main.py), the session-based      *)
(* authentication gate and the Google OAuth session endpoints              *)
(* (src/app/api/v1/deps.py, auth_google.py), and the masked environment    *)
(* endpoints (src/app/api/v1/routes.py, src/main.py).                      *)
(*                                                                         *)
(* Python values are modelled as follows.  An Optional value is a sequence *)
(* of length at most one: None is <<>> and a present value x is <<x>>.     *)
(* A JSON object with scalar members is the set of its <<key, value>>      *)
(* pairs, the values written as JSON text.                                 *)
(***************************************************************************)
EXTENDS Integers, Sequences, FiniteSets, TLC

VARIABLES
    WEBHOOK_SECRET,   \* create_app: os.getenv("STRIPE_WEBHOOK_SECRET", "")
    seen_events,      \* create_app: the in-memory idempotency set
    requests,         \* the webhook requests received so far, in order of arrival
    firestore,        \* the event documents committed by the handlers
    session,          \* request.session of one client (a dict)
    calls,            \* the calls made on that session and their responses
    environ,          \* the process environment read by the settings
    env_response      \* the last response of an env endpoint

vars == <<WEBHOOK_SECRET, seen_events, requests, firestore,
          session, calls, environ, env_response>>

webhookVars == <<WEBHOOK_SECRET, seen_events, requests, firestore>>
authVars    == <<session, calls>>
envVars     == <<environ, env_response>>

(***************************************************************************)
(* Bounds of the model.                                                    *)
(***************************************************************************)
MaxRequests == 2
MaxCalls == 5

None == <<>>
Some(x) == <<x>>

(***************************************************************************)
(* The Stripe webhook.                                                     *)
(***************************************************************************)

\* Values the environment variable STRIPE_WEBHOOK_SECRET is drawn from; an
\* absent variable reads as "" (the default of os.getenv at line 156).
WebhookSecrets == {"", "whsec_test"}

\* Events the payment processor delivers: event.get("id"), event.get("type")
\* and data.object.customer, each possibly missing.
EventIds == {Some("evt_1"), Some("evt_2"), None}
EventTypes == {Some("checkout.session.completed"), Some("charge.refunded")}
Customers == {Some("cus_1")}
Events == [id : EventIds, type : EventTypes, customer : Customers]

\* Values of the stripe-signature header: absent, empty, or a signature.
SigHeader == Some("t=1,v1=5257a8")

\* An inbound request: the signature header, the event the payload encodes
\* (None when the bytes do not parse) and what stripe.Webhook.construct_event
\* does with them (the library is an external collaborator).
Deliveries ==
    [sig : {None, Some("")}, construct : {"SignatureVerificationError"},
     event : {Some(e) : e \in Events}]
    \cup [sig : {SigHeader}, construct : {"SignatureVerificationError"},
          event : {Some(e) : e \in Events}]
    \cup [sig : {SigHeader}, construct : {"Exception"}, event : {None}]
    \cup [sig : {SigHeader}, construct : {"Event"},
          event : {Some(e) : e \in Events}]

JsonResponse(status, body) == [status |-> status, body |-> body]
HTTPException(status, detail) ==
    JsonResponse(status, {<<"detail", detail>>})

\* route_event with a default handler for the types the mapping lacks.
route_event_default(event_type) ==
    IF event_type \in {Some("checkout.session.completed")}
    THEN Some("handle_checkout_completed")
    ELSE Some("handle_subscription_updated")

\* route_event: the mapping of event types to handlers; None when absent.
route_event(event_type) ==
    IF event_type \in {Some("checkout.session.completed")}
    THEN Some("handle_checkout_completed")
    ELSE IF event_type \in {Some("customer.subscription.updated"),
                            Some("customer.subscription.created"),
                            Some("invoice.payment_succeeded"),
                            Some("invoice.payment_failed")}
    THEN Some("handle_subscription_updated")
    ELSE None

\* The configuration check left out.
NotConfiguredNever(secret) == FALSE

\* "not WEBHOOK_SECRET"
NotConfigured(secret) == secret = ""

\* "not sig": the header is absent or empty
MissingSignature(sig) == sig = None \/ sig = Some("")

\* The idempotency check left out.
IsDuplicateNever(event_id, seen) == FALSE

\* An idempotency check that lets events without an identifier through.
IsDuplicateSkipsNone(event_id, seen) == event_id # None /\ event_id \in seen

\* "event_id in seen_events"
IsDuplicate(event_id, seen) == event_id \in seen

\* The insertion left out.
AddSeenForgets(seen, event_id) == seen

\* The insertion replacing the set by the latest identifier.
AddSeenEvicts(seen, event_id) == {event_id}

\* "seen_events.add(event_id)"
AddSeen(seen, event_id) == seen \cup {event_id}

\* "background.add_task(handler, data, event)"
AddTask(tasks, handler, event) ==
    Append(tasks, [handler |-> handler, event |-> event, state |-> "pending"])

\* The result of one step of stripe_webhook: the response, the seen set and
\* the request's background tasks.
Outcome(response, seen, tasks) ==
    [response |-> response, seen |-> seen, tasks |-> tasks]

\* Lines 227-244: deduplicate, record, route and schedule.
Dispatch(event, seen) ==
    IF IsDuplicate(event.id, seen)
    THEN Outcome(JsonResponse(200, {<<"received", "true">>,
                                    <<"duplicate", "true">>}), seen, <<>>)
    ELSE LET handler == route_event(event.type)
         IN  Outcome(JsonResponse(200, {<<"received", "true">>}),
                     AddSeen(seen, event.id),
                     IF handler # None
                     THEN AddTask(<<>>, handler[1], event)
                     ELSE <<>>)

\* stripe_webhook recording the payload's identifier before it verifies the
\* signature.
ResumeWebhookRecordsFirst(req, seen) ==
    LET early == IF req.event = None THEN seen
                 ELSE seen \cup {req.event[1].id}
    IN  IF MissingSignature(req.sig)
        THEN Outcome(HTTPException(400, "Missing Stripe-Signature header"),
                     early, <<>>)
        ELSE IF req.construct = "SignatureVerificationError"
        THEN Outcome(HTTPException(400, "Invalid signature"), early, <<>>)
        ELSE IF req.construct = "Exception"
        THEN Outcome(HTTPException(400, "Invalid payload"), early, <<>>)
        ELSE Dispatch(req.event[1], seen)

\* Lines 215-244: what stripe_webhook does once the body has been read.
\* Nothing in these lines awaits, so the event loop runs them as one step.
ResumeWebhook(req, seen) ==
    IF MissingSignature(req.sig)
    THEN Outcome(HTTPException(400, "Missing Stripe-Signature header"),
                 seen, <<>>)
    ELSE IF req.construct = "SignatureVerificationError"
    THEN Outcome(HTTPException(400, "Invalid signature"), seen, <<>>)
    ELSE IF req.construct = "Exception"
    THEN Outcome(HTTPException(400, "Invalid payload"), seen, <<>>)
    ELSE Dispatch(req.event[1], seen)

\* The handler run before the response has been sent.
CanRunBackgroundEarly(req) == req.pc \in {"returned", "responded"}

\* Background tasks run once the response has been sent.
CanRunBackground(req) == req.pc = "responded"

\* Lines 210-214: a request arrives; a missing secret fails it at once,
\* otherwise the coroutine suspends in "await request.body()".
Enter(d) ==
    /\ Len(requests) < MaxRequests
    /\ requests' = Append(requests,
          IF NotConfigured(WEBHOOK_SECRET)
          THEN [sig |-> d.sig, construct |-> d.construct, event |-> d.event,
                pc |-> "returned",
                response |-> Some(HTTPException(500, "Webhook not configured")),
                tasks |-> <<>>]
          ELSE [sig |-> d.sig, construct |-> d.construct, event |-> d.event,
                pc |-> "await_body", response |-> None, tasks |-> <<>>])
    /\ UNCHANGED <<WEBHOOK_SECRET, seen_events, firestore>>

\* Lines 215-244 for request i.
Resume(i) ==
    /\ requests[i].pc = "await_body"
    /\ LET out == ResumeWebhook(requests[i], seen_events)
       IN  /\ requests' = [requests EXCEPT ![i].pc = "returned",
                                           ![i].response = Some(out.response),
                                           ![i].tasks = out.tasks]
           /\ seen_events' = out.seen
    /\ UNCHANGED <<WEBHOOK_SECRET, firestore>>

\* The framework sends the response of request i to the caller.
SendResponse(i) ==
    /\ requests[i].pc = "returned"
    /\ requests' = [requests EXCEPT ![i].pc = "responded"]
    /\ UNCHANGED <<WEBHOOK_SECRET, seen_events, firestore>>

\* write_customer_subscription_snapshot: the document the event is stored
\* under, raw.get("id") or raw.get("latest_invoice") or "no_event_id".
EventDoc(customer_id, event) ==
    [customer |-> customer_id,
     event_id |-> IF event.id # None /\ event.id # Some("")
                  THEN event.id[1] ELSE "no_event_id"]

\* The scheduled handler of request i runs (handle_checkout_completed or
\* handle_subscription_updated).  Without a customer nothing is written.
\* get_firestore_client may raise, and the handler with it; a failing
\* commit is caught and logged by write_customer_subscription_snapshot.
RunTask(i, result) ==
    /\ CanRunBackground(requests[i])
    /\ Len(requests[i].tasks) = 1
    /\ requests[i].tasks[1].state = "pending"
    /\ LET event == requests[i].tasks[1].event
           customer_id == event.customer
       IN  IF customer_id = None \/ customer_id = Some("")
           THEN /\ result = "skipped"
                /\ firestore' = firestore
           ELSE /\ result \in {"written", "logged", "raised"}
                /\ firestore' = IF result = "written"
                                THEN firestore \cup
                                       {EventDoc(customer_id[1], event)}
                                ELSE firestore
    /\ requests' = [requests EXCEPT ![i].tasks[1].state = result]
    /\ UNCHANGED <<WEBHOOK_SECRET, seen_events>>

(***************************************************************************)
(* The session: the authentication gate and the Google OAuth endpoints.    *)
(***************************************************************************)

\* JSON text of an Optional string.
Json(v) == IF v = None THEN "null" ELSE "\"" \o v[1] \o "\""

\* The JSON object of a dict whose values are Optional strings.
JsonObject(d) == {<<k, Json(d[k])>> : k \in DOMAIN d}

\* token.get("userinfo") of a completed token exchange: absent, or the
\* identity provider's claims, each of which may be missing.
UserInfos ==
    {None,
     Some([email |-> Some("a@b.com"), name |-> Some("Ann"),
           picture |-> Some("a.png")]),
     Some([email |-> Some("c@d.com"), name |-> None, picture |-> None])}

\* dict.get(key)
DictGet(d, key) == IF key \in DOMAIN d THEN Some(d[key]) ELSE None

\* A truth value that looks at the record's email.
TruthyEmail(v) == v # None /\ v[1].email # None

\* Python truth value of an Optional dict: None and {} are false.
Truthy(v) == v # None /\ DOMAIN v[1] # {}

\* "token.get("userinfo") or {}" followed by the three userinfo.get calls.
UserRecord(userinfo) ==
    IF userinfo = None
    THEN [email |-> None, name |-> None, picture |-> None]
    ELSE [email |-> userinfo[1].email, name |-> userinfo[1].name,
          picture |-> userinfo[1].picture]

\* request.session["user"] = {...}
StoreUser(sess, user) ==
    [k \in DOMAIN sess \cup {"user"} |-> IF k = "user" THEN user ELSE sess[k]]

\* A logout that leaves the session as it is.
ClearSessionKeeps(sess) == sess

\* request.session.clear()
ClearSession(sess) == <<>>

\* deps.require_user: the stored record, or HTTP 401.
require_user(sess) ==
    IF ~Truthy(DictGet(sess, "user"))
    THEN [status |-> 401, user |-> None,
          body |-> {<<"detail", "\"Not authenticated\"">>}]
    ELSE [status |-> 200, user |-> Some(sess["user"]),
          body |-> JsonObject(sess["user"])]

\* auth_google.auth_me: the stored record, or HTTP 401.
auth_me(sess) ==
    LET user == DictGet(sess, "user")
    IN  IF ~Truthy(user)
        THEN [status |-> 401, user |-> None,
              body |-> {<<"detail", "\"Not authenticated\"">>}]
        ELSE [status |-> 200, user |-> user, body |-> JsonObject(user[1])]

Call(op, arg, res) ==
    [op |-> op, arg |-> arg, status |-> res.status, user |-> res.user,
     body |-> res.body]

\* GET /v1/auth/google/callback with a completed token exchange.
GoogleCallback(userinfo) ==
    /\ Len(calls) < MaxCalls
    /\ session' = StoreUser(session, UserRecord(userinfo))
    /\ calls' = Append(calls, Call("google_callback", userinfo,
          [status |-> 200, user |-> None,
           body |-> {<<"email", Json(UserRecord(userinfo).email)>>,
                     <<"name", Json(UserRecord(userinfo).name)>>}]))

\* GET /v1/auth/google/callback when authorize_access_token raises: the
\* assignment to the session is never reached.
GoogleCallbackFails ==
    /\ Len(calls) < MaxCalls
    /\ session' = session
    /\ calls' = Append(calls, Call("google_callback_failed", None,
          [status |-> 500, user |-> None, body |-> {}]))

\* GET /v1/auth/me
AuthMe ==
    /\ Len(calls) < MaxCalls
    /\ session' = session
    /\ calls' = Append(calls, Call("auth_me", None, auth_me(session)))

\* POST /v1/auth/logout
AuthLogout ==
    /\ Len(calls) < MaxCalls
    /\ session' = ClearSession(session)
    /\ calls' = Append(calls, Call("auth_logout", None,
          [status |-> 200, user |-> None, body |-> {<<"ok", "true">>}]))

\* An endpoint declared with Depends(require_user), such as add_doc.
Gated ==
    /\ Len(calls) < MaxCalls
    /\ session' = session
    /\ calls' = Append(calls, Call("require_user", None, require_user(session)))

(***************************************************************************)
(* The env endpoints.                                                      *)
(***************************************************************************)

EnvNames == {"OPENAI_API_KEY", "STRIPE_SECRET_KEY", "GOOGLE_CLIENT_ID",
             "GOOGLE_CLIENT_SECRET", "AZURE_SEARCH_ENDPOINT",
             "AZURE_SEARCH_KEY"}

\* Values a secret is drawn from: unset, empty, and strings of 7 and 15
\* characters.
SecretValues == {None, Some(""), Some("present"), Some("sk_live"),
                 Some("present(len=15)")}

\* Python truth value of an Optional string.
TruthyStr(v) == v # None /\ v # Some("")

\* create_app.secret_dep: the dict handed to the v1 env endpoint.
secret_dep(env) ==
    [openai_api_key        |-> env["OPENAI_API_KEY"],
     stripe_secret_key     |-> env["STRIPE_SECRET_KEY"],
     google_client_id      |-> env["GOOGLE_CLIENT_ID"],
     google_client_secret  |-> env["GOOGLE_CLIENT_SECRET"],
     azure_search_endpoint |-> env["AZURE_SEARCH_ENDPOINT"],
     azure_search_key      |-> IF TruthyStr(env["AZURE_SEARCH_KEY"])
                               THEN Some("present") ELSE None]

\* f"present(len={len(v)})"
PresentLen(v) == "present(len=" \o ToString(Len(v)) \o ")"

\* routes.env.mask
mask(v) ==
    IF v = None THEN None
    ELSE IF v = Some("present") THEN Some("present")
    ELSE Some(PresentLen(v[1]))

\* routes.env: the "env" object of GET /v1/env.
v1_env(s) ==
    [OPENAI_API_KEY        |-> mask(s.openai_api_key),
     STRIPE_SECRET_KEY     |-> mask(s.stripe_secret_key),
     GOOGLE_CLIENT_ID      |-> mask(s.google_client_id),
     GOOGLE_CLIENT_SECRET  |-> mask(s.google_client_secret),
     AZURE_SEARCH_ENDPOINT |-> s.azure_search_endpoint,
     AZURE_SEARCH_KEY      |-> mask(s.azure_search_key)]

\* src/main.py env: the "env" object of the probe's GET /env.
probe_env(env) ==
    [k \in {"OPENAI_API_KEY", "STRIPE_SECRET_KEY", "GOOGLE_CLIENT_ID",
            "GOOGLE_CLIENT_SECRET"} |->
        IF env[k] = None THEN None ELSE Some(PresentLen(env[k][1]))]

\* GET /v1/env
GetEnv ==
    /\ env_response' = Some([endpoint |-> "/v1/env",
                             env |-> v1_env(secret_dep(environ))])
    /\ UNCHANGED environ

\* GET /env of the probe application
GetProbeEnv ==
    /\ env_response' = Some([endpoint |-> "/env",
                             env |-> probe_env(environ)])
    /\ UNCHANGED environ

(***************************************************************************)
(* Specifications.                                                         *)
(***************************************************************************)

WebhookInit ==
    /\ seen_events = {}
    /\ requests = <<>>
    /\ firestore = {}

AuthInit ==
    /\ session = <<>>
    /\ calls = <<>>

EnvInit ==
    /\ env_response = None

\* The webhook receiver under every value of the webhook secret.
Init ==
    /\ WEBHOOK_SECRET \in WebhookSecrets
    /\ WebhookInit /\ AuthInit /\ EnvInit
    /\ environ = [k \in EnvNames |-> None]

Next ==
    \/ \E d \in Deliveries : Enter(d) /\ UNCHANGED <<authVars, envVars>>
    \/ \E i \in 1..Len(requests) : Resume(i) /\ UNCHANGED <<authVars, envVars>>
    \/ \E i \in 1..Len(requests) :
          SendResponse(i) /\ UNCHANGED <<authVars, envVars>>
    \/ \E i \in 1..Len(requests) :
          \E result \in {"skipped", "written", "logged", "raised"} :
             RunTask(i, result) /\ UNCHANGED <<authVars, envVars>>

Spec == Init /\ [][Next]_vars

\* One client's session under every sequence of calls.
InitAuth ==
    /\ WEBHOOK_SECRET = ""
    /\ WebhookInit /\ AuthInit /\ EnvInit
    /\ environ = [k \in EnvNames |-> None]

NextAuth ==
    \/ \E userinfo \in UserInfos :
          GoogleCallback(userinfo) /\ UNCHANGED <<webhookVars, envVars>>
    \/ GoogleCallbackFails /\ UNCHANGED <<webhookVars, envVars>>
    \/ AuthMe /\ UNCHANGED <<webhookVars, envVars>>
    \/ AuthLogout /\ UNCHANGED <<webhookVars, envVars>>
    \/ Gated /\ UNCHANGED <<webhookVars, envVars>>

SpecAuth == InitAuth /\ [][NextAuth]_vars

\* The env endpoints under every configuration of the secrets.
InitEnv ==
    /\ WEBHOOK_SECRET = ""
    /\ WebhookInit /\ AuthInit /\ EnvInit
    /\ environ \in [EnvNames -> SecretValues]

NextEnv ==
    \/ GetEnv /\ UNCHANGED <<webhookVars, authVars>>
    \/ GetProbeEnv /\ UNCHANGED <<webhookVars, authVars>>

SpecEnv == InitEnv /\ [][NextEnv]_vars

(***************************************************************************)
(* Properties of the webhook receiver (specification Spec).                *)
(***************************************************************************)

\* The request has run lines 215-244 (or was failed at line 212).
Processed(r) == r.pc # "await_body"

\* The request carries a signature header that construct_event accepts.
Verified(r) == r.sig = SigHeader /\ r.construct = "Event"

\* Request i has been verified and dispatched.
Accepted(i) ==
    /\ WEBHOOK_SECRET # ""
    /\ Verified(requests[i])
    /\ Processed(requests[i])

Received == {<<"received", "true">>}
ReceivedDuplicate == {<<"received", "true">>, <<"duplicate", "true">>}

\* The keys of the handler mapping, as written at lines 199-203.
HandledTypes == {Some("checkout.session.completed"),
                 Some("customer.subscription.updated"),
                 Some("customer.subscription.created"),
                 Some("invoice.payment_succeeded"),
                 Some("invoice.payment_failed")}

IdOf(i) == requests[i].event[1].id
TypeOf(i) == requests[i].event[1].type
ResponseOf(i) == requests[i].response[1]

AcceptedOf(E) == {i \in DOMAIN requests : Accepted(i) /\ IdOf(i) = E}
FirstSeenOf(E) == {i \in AcceptedOf(E) : ResponseOf(i).body = Received}

\* A step in which request i runs lines 215-244.
ResumeStep(i) ==
    /\ requests[i].pc = "await_body"
    /\ Len(requests') = Len(requests)
    /\ requests'[i].pc = "returned"

C1_Counts ==
    \A E \in EventIds :
        AcceptedOf(E) # {} =>
            /\ Cardinality(FirstSeenOf(E)) = 1
            /\ \A i \in AcceptedOf(E) :
                  /\ ResponseOf(i).status = 200
                  /\ i \in FirstSeenOf(E) =>
                        IF TypeOf(i) \in HandledTypes
                        THEN /\ Len(requests[i].tasks) = 1
                             /\ requests[i].tasks[1].event = requests[i].event[1]
                        ELSE requests[i].tasks = <<>>
                  /\ i \notin FirstSeenOf(E) =>
                        /\ ResponseOf(i).body = ReceivedDuplicate
                        /\ requests[i].tasks = <<>>

C1_Order ==
    \A i \in DOMAIN requests :
        (ResumeStep(i) /\ Verified(requests[i])) =>
            IF AcceptedOf(IdOf(i)) = {}
            THEN /\ requests'[i].response = Some(JsonResponse(200, Received))
                 /\ Len(requests'[i].tasks) =
                       IF TypeOf(i) \in HandledTypes THEN 1 ELSE 0
            ELSE /\ requests'[i].response =
                       Some(JsonResponse(200, ReceivedDuplicate))
                 /\ requests'[i].tasks = <<>>

\* C1: of the verified deliveries that carry one event identifier, the first
\* to be dispatched is answered {"received": true} and schedules the handler
\* of its type (one task when the type has a handler), and every later one
\* is answered {"received": true, "duplicate": true} and schedules nothing.
C1_ExactlyOnePerEvent == []C1_Counts /\ [][C1_Order]_vars

\* Two deliveries of one event with a handler: the first scheduled it, the
\* second was answered as a duplicate.
C1_Witness ==
    /\ Len(requests) = 2
    /\ Accepted(1) /\ Accepted(2)
    /\ IdOf(1) = Some("evt_1") /\ IdOf(2) = Some("evt_1")
    /\ requests[1].response = Some(JsonResponse(200, Received))
    /\ Len(requests[1].tasks) = 1
    /\ requests[2].response = Some(JsonResponse(200, ReceivedDuplicate))
    /\ requests[2].tasks = <<>>

\* C2: under every interleaving of requests that carry the same verified
\* event identifier, no two of them are both treated as first-seen: of any
\* two that have been dispatched at least one was answered as a duplicate,
\* a duplicate schedules no handler, and a request still waiting for its
\* body while the identifier is recorded has scheduled nothing.
C2_AtMostOneFirstSeen ==
    \A i, j \in DOMAIN requests :
        (i # j /\ Accepted(i) /\ Accepted(j) /\ IdOf(i) = IdOf(j)) =>
            /\ \/ ResponseOf(i).body = ReceivedDuplicate
               \/ ResponseOf(j).body = ReceivedDuplicate
            /\ ~(requests[i].tasks # <<>> /\ requests[j].tasks # <<>>)
            /\ ResponseOf(i).body = ReceivedDuplicate => requests[i].tasks = <<>>

\* Two requests for one event were in flight together: the one that arrived
\* second was dispatched first, and the one that arrived first was then
\* answered as a duplicate.
C2_Witness ==
    /\ Len(requests) = 2
    /\ Accepted(1) /\ Accepted(2)
    /\ IdOf(1) = IdOf(2)
    /\ ResponseOf(2).body = Received
    /\ Len(requests[2].tasks) = 1
    /\ ResponseOf(1).body = ReceivedDuplicate
    /\ requests[1].tasks = <<>>

\* The request fails: the secret is empty, the signature header is missing
\* or empty, the signature is invalid or the payload is malformed.
Failing(r) ==
    \/ WEBHOOK_SECRET = ""
    \/ r.sig = None
    \/ r.sig = Some("")
    \/ r.construct = "SignatureVerificationError"
    \/ r.construct = "Exception"

\* C3: every identifier in the seen-event set is that of a delivery whose
\* verification succeeded; a failing request is answered with an error,
\* schedules no handler, and a verified delivery that no other verified
\* delivery of its identifier preceded is treated as first-seen.
C3_SeenOnlyAfterVerification ==
    /\ \A E \in seen_events : AcceptedOf(E) # {}
    /\ \A i \in DOMAIN requests :
          (Failing(requests[i]) /\ Processed(requests[i])) =>
              /\ ResponseOf(i).status \in {400, 500}
              /\ requests[i].tasks = <<>>
    /\ \A i \in DOMAIN requests :
          (Accepted(i) /\ AcceptedOf(IdOf(i)) = {i}) =>
              ResponseOf(i).body = Received

\* A delivery of evt_1 with an invalid signature was refused, and the later
\* correctly signed delivery of evt_1 was treated as first-seen.
C3_Witness ==
    /\ Len(requests) = 2
    /\ WEBHOOK_SECRET # ""
    /\ requests[1].construct = "SignatureVerificationError"
    /\ requests[1].event # None
    /\ requests[1].event[1].id = Some("evt_1")
    /\ requests[1].pc = "responded"
    /\ ResponseOf(1).status = 400
    /\ Accepted(2) /\ IdOf(2) = Some("evt_1")
    /\ ResponseOf(2) = JsonResponse(200, Received)

\* C4: a verified event whose type has no handler schedules nothing, is
\* answered with HTTP 200 ({"received": true} when first-seen), and its
\* identifier is in the seen-event set, so that every other delivery of the
\* identifier is answered as a duplicate.
C4_UnhandledIsRecorded ==
    \A i \in DOMAIN requests :
        (Accepted(i) /\ TypeOf(i) \notin HandledTypes) =>
            /\ requests[i].tasks = <<>>
            /\ ResponseOf(i).status = 200
            /\ ResponseOf(i).body \in {Received, ReceivedDuplicate}
            /\ IdOf(i) \in seen_events
            /\ ResponseOf(i).body = Received =>
                  \A j \in AcceptedOf(IdOf(i)) \ {i} :
                      ResponseOf(j) = JsonResponse(200, ReceivedDuplicate)

\* An event of an unknown type was accepted and its redelivery was answered
\* as a duplicate.
C4_Witness ==
    /\ Len(requests) = 2
    /\ Accepted(1) /\ Accepted(2)
    /\ IdOf(1) = IdOf(2)
    /\ TypeOf(1) = Some("charge.refunded")
    /\ TypeOf(2) = Some("charge.refunded")
    /\ ResponseOf(1) = JsonResponse(200, Received)
    /\ ResponseOf(2) = JsonResponse(200, ReceivedDuplicate)
    /\ requests[1].tasks = <<>>

\* The terminal outcome a response reports.
ObservedOutcome(r) ==
    LET resp == r.response[1]
    IN  IF resp.body = {<<"detail", "Webhook not configured">>}
        THEN "ConfigurationError"
        ELSE IF resp.body = {<<"detail", "Missing Stripe-Signature header">>}
        THEN "MissingSignature"
        ELSE IF resp.body = {<<"detail", "Invalid signature">>}
        THEN "InvalidSignature"
        ELSE IF resp.body = {<<"detail", "Invalid payload">>}
        THEN "MalformedPayload"
        ELSE IF resp.body = ReceivedDuplicate THEN "Duplicate"
        ELSE IF resp.body = Received /\ r.tasks = <<>> THEN "Unhandled"
        ELSE IF resp.body = Received THEN "Scheduled"
        ELSE "none"

\* The status the spec fixes for each outcome.
StatusOf(outcome) ==
    CASE outcome = "ConfigurationError" -> 500
      [] outcome \in {"MissingSignature", "InvalidSignature",
                      "MalformedPayload"} -> 400
      [] outcome \in {"Duplicate", "Unhandled", "Scheduled"} -> 200
      [] OTHER -> 0

\* The outcome the request's inputs call for.
ExpectedOutcomes(r) ==
    IF WEBHOOK_SECRET = "" THEN {"ConfigurationError"}
    ELSE IF r.sig \in {None, Some("")} THEN {"MissingSignature"}
    ELSE IF r.construct = "SignatureVerificationError"
    THEN {"InvalidSignature"}
    ELSE IF r.construct = "Exception" THEN {"MalformedPayload"}
    ELSE {"Duplicate", "Unhandled", "Scheduled"}

\* C5: every answered webhook request reports the one outcome its inputs
\* call for, with that outcome's status: 500 for ConfigurationError, which
\* is the outcome of every request when the secret is empty; 400 for
\* MissingSignature, InvalidSignature and MalformedPayload; 200 for
\* Duplicate, Unhandled and Scheduled.  Status 500 is given exactly when the
\* secret is empty.
C5_OutcomeStatus ==
    \A i \in DOMAIN requests :
        Processed(requests[i]) =>
            /\ requests[i].response # None
            /\ ObservedOutcome(requests[i]) \in ExpectedOutcomes(requests[i])
            /\ ResponseOf(i).status = StatusOf(ObservedOutcome(requests[i]))
            /\ (ResponseOf(i).status = 500) <=> (WEBHOOK_SECRET = "")

\* With the secret empty, a request without a signature header and a
\* correctly signed one were both answered 500.
C5_Witness ==
    /\ WEBHOOK_SECRET = ""
    /\ Len(requests) = 2
    /\ requests[1].sig = None
    /\ Verified(requests[2])
    /\ requests[1].pc = "responded" /\ requests[2].pc = "responded"
    /\ ResponseOf(1) = HTTPException(500, "Webhook not configured")
    /\ ResponseOf(2) = HTTPException(500, "Webhook not configured")

HasTask(i) == requests[i].tasks # <<>>
Started(i) == HasTask(i) /\ requests[i].tasks[1].state # "pending"

C6_AfterResponse ==
    /\ \A i \in DOMAIN requests :
          Started(i) =>
              /\ requests[i].pc = "responded"
              /\ requests[i].response = Some(JsonResponse(200, Received))
              /\ requests[i].tasks[1].event.id \in seen_events
    /\ \A E \in EventIds :
          Cardinality({i \in DOMAIN requests :
              HasTask(i) /\ requests[i].tasks[1].event.id = E}) <= 1

C6_HandlerStep ==
    \A i \in DOMAIN requests :
        /\ (HasTask(i) /\ requests'[i].tasks # requests[i].tasks) =>
              /\ requests[i].tasks[1].state = "pending"
              /\ seen_events' = seen_events
              /\ requests'[i].response = requests[i].response
              /\ requests'[i].pc = requests[i].pc
        /\ (ResumeStep(i) /\ Verified(requests[i])
              /\ \E j \in DOMAIN requests :
                    Started(j) /\ requests[j].tasks[1].event.id = IdOf(i)) =>
              /\ requests'[i].response =
                    Some(JsonResponse(200, ReceivedDuplicate))
              /\ requests'[i].tasks = <<>>

\* C6: a handler has started only when the request that scheduled it has
\* sent its response {"received": true}; a handler run, raising or not,
\* changes neither the seen-event set nor any response, runs once, and at
\* most one handler is ever scheduled per identifier; a delivery dispatched
\* after the handler of its identifier ran is answered as a duplicate.
C6_HandlerAfterAckAtMostOnce == []C6_AfterResponse /\ [][C6_HandlerStep]_vars

\* The handler of an event raised, and the redelivery of the event was
\* as a duplicate, the first acknowledgment standing.
C6_Witness ==
    /\ Len(requests) = 2
    /\ HasTask(1) /\ requests[1].tasks[1].state = "raised"
    /\ requests[1].response = Some(JsonResponse(200, Received))
    /\ IdOf(1) \in seen_events
    /\ Accepted(2) /\ IdOf(2) = IdOf(1)
    /\ requests[2].pc = "responded"
    /\ requests[2].response = Some(JsonResponse(200, ReceivedDuplicate))

C7_Exactly ==
    /\ seen_events = {IdOf(i) : i \in {j \in DOMAIN requests : Accepted(j)}}
    /\ requests = <<>> => seen_events = {}

\* C7: the seen-event set is empty at creation, never loses an identifier,
\* and in every state holds exactly the identifiers of the deliveries
\* verified so far.
C7_SeenGrowsOnly ==
    []C7_Exactly /\ [][seen_events \subseteq seen_events']_vars

\* Two different events were verified, and a handler ran: both identifiers
\* are in the set.
C7_Witness ==
    /\ Len(requests) = 2
    /\ Accepted(1) /\ Accepted(2)
    /\ IdOf(1) # IdOf(2)
    /\ seen_events = {IdOf(1), IdOf(2)}
    /\ \E i \in DOMAIN requests : Started(i)

(***************************************************************************)
(* Properties of the session (specification SpecAuth).                     *)
(***************************************************************************)

LastCall == calls'[Len(calls')]
CallStep(op) == Len(calls') = Len(calls) + 1 /\ LastCall.op = op

\* C8: a call through require_user on a session without a stored user
\* record fails with HTTP 401; on a session with a stored record it returns
\* exactly that record; either way the session is left as it was.
C8_RequireUserReadsOnly ==
    [][CallStep("require_user") =>
          /\ session' = session
          /\ IF "user" \in DOMAIN session
             THEN /\ LastCall.status = 200
                  /\ LastCall.user = Some(session["user"])
             ELSE /\ LastCall.status = 401
                  /\ LastCall.user = None]_vars

\* The gate refused an empty session and, after a callback without userinfo
\* claims, returned the stored record, whose three members are all None.
C8_Witness ==
    \E i, j \in DOMAIN calls :
        /\ i < j
        /\ calls[i].op = "require_user" /\ calls[i].status = 401
        /\ calls[j].op = "require_user" /\ calls[j].status = 200
        /\ calls[j].user =
              Some([email |-> None, name |-> None, picture |-> None])
        /\ session["user"] = calls[j].user[1]

\* The calls before call i that write or destroy the user record.
Writers(i) ==
    {j \in 1..(i - 1) : calls[j].op \in {"google_callback", "auth_logout"}}

Latest(S) == CHOOSE j \in S : \A k \in S : k <= j

\* The record a successful callback stores for the userinfo it was given.
Stored(userinfo) ==
    IF userinfo = None
    THEN [email |-> None, name |-> None, picture |-> None]
    ELSE userinfo[1]

\* C9: auth_me and the gate answer 401 when no callback has succeeded since
\* the session began or since the last logout, and otherwise return the
\* record written by the most recent successful callback; auth_logout always
\* answers {"ok": true}.
C9_UserFromCallbackUntilLogout ==
    \A i \in DOMAIN calls :
        /\ calls[i].op \in {"auth_me", "require_user"} =>
              IF Writers(i) = {} \/ calls[Latest(Writers(i))].op = "auth_logout"
              THEN calls[i].status = 401 /\ calls[i].user = None
              ELSE /\ calls[i].status = 200
                   /\ calls[i].user =
                         Some(Stored(calls[Latest(Writers(i))].arg))
        /\ calls[i].op = "auth_logout" =>
              calls[i].status = 200 /\ calls[i].body = {<<"ok", "true">>}

\* A callback, a logout, a refused gate call, a second callback for another
\* user, and auth_me returning the second record.
C9_Witness ==
    /\ Len(calls) = 5
    /\ calls[1].op = "google_callback"
    /\ calls[2].op = "auth_logout"
    /\ calls[3].op = "require_user" /\ calls[3].status = 401
    /\ calls[4].op = "google_callback" /\ calls[4].arg # calls[1].arg
    /\ calls[5].op = "auth_me" /\ calls[5].status = 200
    /\ calls[5].user = Some(Stored(calls[4].arg))

(***************************************************************************)
(* Properties of the env endpoints (specification SpecEnv).                *)
(***************************************************************************)

\* A presence marker: "present" or "present(len=N)".
IsMarker(v) ==
    \/ v = Some("present")
    \/ \E n \in 0..64 : v = Some("present(len=" \o ToString(n) \o ")")

\* What two values of a secret may differ in without differing in presence
\* or length.
Shape(v) == IF v = None THEN <<>> ELSE <<Len(v[1])>>

\* The "env" object an endpoint gives under a configuration.
EnvOf(endpoint, env) ==
    IF endpoint = "/v1/env" THEN v1_env(secret_dep(env)) ELSE probe_env(env)

IdLess == {i \in DOMAIN requests : Accepted(i) /\ requests[i].event[1].id = None}

\* C11: events without an id are deduplicated under the one key None: once
\* an id-less event has been accepted None is in the seen-event set, exactly
\* one of the id-less deliveries dispatched so far was treated as
\* first-seen, and every other one, whatever its type and payload, was
\* answered as a duplicate with no handler scheduled.
C11_IdLessShareOneKey ==
    IdLess # {} =>
        /\ None \in seen_events
        /\ Cardinality({i \in IdLess :
              requests[i].response = Some(JsonResponse(200, Received))}) = 1
        /\ \A i \in IdLess :
              requests[i].response # Some(JsonResponse(200, Received)) =>
                 /\ requests[i].response =
                       Some(JsonResponse(200, ReceivedDuplicate))
                 /\ requests[i].tasks = <<>>

\* An id-less event of a type without a handler was accepted first; the
\* id-less event of another type that followed, whose type has a handler,
\* was answered as a duplicate and scheduled nothing.
C11_Witness ==
    /\ Len(requests) = 2
    /\ 1 \in IdLess /\ 2 \in IdLess
    /\ requests[1].event[1].type = Some("charge.refunded")
    /\ requests[2].event[1].type = Some("checkout.session.completed")
    /\ requests[1].response = Some(JsonResponse(200, Received))
    /\ requests[2].response = Some(JsonResponse(200, ReceivedDuplicate))
    /\ requests[2].tasks = <<>>
    /\ requests[2].pc = "responded"

====
